---- MODULE Spec2Model ----
(***************************************************************************)
(* Model of the spreadsheet translation job runner:                        *)
(*   src/server.js         POST /process-file (authenticate + handler)     *)
(*   src/fileProcessor.js  findColumnByHeader, resolveColumnsForSingleSheet,*)
(*                         translateBatch, processFile                     *)
(* Every await of the JavaScript code is a step boundary: one action is    *)
(* the synchronous code that runs from the resumption of one await to the  *)
(* issue of the next external call.                                        *)
(***************************************************************************)
EXTENDS Integers, Sequences, FiniteSets, TLC

\* ------------------------------------------------------------------------
\* Program constants and bounds
\* ------------------------------------------------------------------------

\* const batchSize = 100 (fileProcessor.js:251)
batchSize == 100

\* Number of data rows of the large test sheet (one row repeats an earlier
\* string, so it holds BigRows - 1 unique strings: two batches).
BigRows == 102

\* JavaScript undefined, for a value that is otherwise an object (a cell, a
\* range, a workbook)
Undefined == <<>>

\* the null that findColumnByHeader returns instead of a column index
NoCol == -1

\* JavaScript null / undefined, for a value that is otherwise a string
NoString == "<null>"

\* process.env.API_KEY || "your-secret-api-key" (server.js:13)
API_KEY == "your-secret-api-key"

\* ------------------------------------------------------------------------
\* JavaScript values and string functions, on the vocabulary of the model
\* ------------------------------------------------------------------------

\* A JavaScript value is tagged with its type: a string or a number.
Str(s) == [str |-> s]
Num(n) == [num |-> n]
IsString(v) == "str" \in DOMAIN v

\* String.prototype.trim: strips leading and trailing white space.
trim(s) ==
  CASE s = " Hello " -> "Hello"
    [] s = "Hello " -> "Hello"
    [] s = "   " -> ""
    [] s = " Translation" -> "Translation"
    [] s = "line1 " -> "line1"
    [] OTHER -> s

\* String.prototype.toLowerCase
toLowerCase(s) ==
  CASE s = "ID" -> "id"
    [] s = "Key" -> "key"
    [] s = "English" -> "english"
    [] s = "X" -> "x"
    [] s = "Field Value" -> "field value"
    [] s = "FIELD VALUE" -> "field value"
    [] s = "Base" -> "base"
    [] s = "Source" -> "source"
    [] s = "Text" -> "text"
    [] s = "TEXT" -> "text"
    [] s = "Translation" -> "translation"
    [] s = "TRANSLATION" -> "translation"
    [] s = "Translated" -> "translated"
    [] s = "Norsk" -> "norsk"
    [] s = "Translated string (nb)" -> "translated string (nb)"
    [] s = "Translated strings" -> "translated strings"
    [] s = "Notes" -> "notes"
    [] OTHER -> s

\* RegExp.prototype.test for the one pattern of the program,
\* /^Translated string\b/i : the text starts with "translated string" in any
\* case, followed by a word boundary.
TranslatedStringRe == "/^Translated string\\b/i"
test(re, text) ==
  /\ re = TranslatedStringRe
  /\ text \in {"Translated string (nb)", "translated string (nb)",
               "Translated string", "TRANSLATED STRING nb"}

\* A JavaScript string is truthy iff it is not empty; null is falsy.
Truthy(s) == s # "" /\ s # NoString

Min(a, b) == IF a <= b THEN a ELSE b

\* Math.round(x * 100) for x = num / den (den > 0): halves round up.
MathRound100(num, den) == (200 * num + den) \div (2 * den)

\* Array.prototype.slice(from, to) on a TLA+ sequence (0-based, to excluded)
slice(seq, from, to) == SubSeq(seq, from + 1, Min(to, Len(seq)))

Last(seq) == seq[Len(seq)]

\* ------------------------------------------------------------------------
\* Worksheets (xlsx library objects)
\* ------------------------------------------------------------------------
\* A worksheet is [ref |-> its "!ref" range or Undefined, cells |-> a function
\* from cell addresses <<c, r>> to cells [t |-> type, v |-> value]].

Range(sc, sr, ec, er) == [s |-> [c |-> sc, r |-> sr], e |-> [c |-> ec, r |-> er]]

\* XLSX.utils.encode_cell: the address of column c, row r
encode_cell(c, r) == <<c, r>>

getCell(worksheet, cIndex, rIndex) ==
  LET ref == encode_cell(cIndex, rIndex)
  IN IF ref \in DOMAIN worksheet.cells THEN worksheet.cells[ref] ELSE Undefined

\* headers of findColumnByHeader: the string cells of the header row whose
\* trimmed text is not empty, left to right.
HeaderAt(worksheet, c) ==
  LET cell == getCell(worksheet, c, worksheet.ref.s.r)
  IN IF cell # Undefined /\ IsString(cell.v) THEN trim(cell.v.str) ELSE NoString

RECURSIVE CollectHeaders(_, _, _)
CollectHeaders(worksheet, c, last) ==
  IF c > last THEN <<>>
  ELSE LET raw == HeaderAt(worksheet, c)
           rest == CollectHeaders(worksheet, c + 1, last)
       IN IF Truthy(raw)
          THEN <<[text |-> raw, lower |-> toLowerCase(raw), col |-> c]>> \o rest
          ELSE rest

\* A candidate is [kind |-> "string" or "regexp", src |-> its text].
StrCand(s) == [kind |-> "string", src |-> s]
ReCand(s) == [kind |-> "regexp", src |-> s]

norm(x) ==
  IF x.kind = "string"
  THEN [type |-> "str", value |-> toLowerCase(x.src)]
  ELSE [type |-> "re", value |-> x.src]

Matches(w, h) ==
  IF w.type = "str" THEN h.lower = w.value ELSE test(w.value, h.text)

\* headers.find(...): the column of the leftmost header that w matches
Find(headers, w) ==
  LET hits == {k \in 1..Len(headers) : Matches(w, headers[k])}
  IN IF hits = {} THEN NoCol
     ELSE headers[CHOOSE k \in hits : \A m \in hits : k <= m].col

\* A local constant of the code (const x = e) is written here as
\*   CHOOSE v \in {body : x \in {e}} : TRUE
\* where it is used many times: x ranges over the one-element set {e}, so
\* the CHOOSE yields body with x = e, and e is evaluated once.

\* One pass of findColumnByHeader over the candidates of one type, in the
\* order of the candidate list.
PassOver(wants, type, headers) ==
  CHOOSE col \in
    {IF good = {} THEN NoCol
     ELSE Find(headers, wants[CHOOSE k \in good : \A m \in good : k <= m]) :
       good \in {{k \in 1..Len(wants) :
                    wants[k].type = type /\ Find(headers, wants[k]) # NoCol}}} : TRUE

\* findColumnByHeader as it would be with one pass over the candidates in
\* their listed order, strings and patterns alike
findColumnByHeader_OnePass(worksheet, candidates) ==
  IF worksheet.ref = Undefined THEN NoCol
  ELSE CHOOSE col \in
         {IF good = {} THEN NoCol
          ELSE Find(headers, wants[CHOOSE k \in good : \A m \in good : k <= m]) :
            <<headers, wants, good>> \in
              {<<h, w, {k \in 1..Len(w) : Find(h, w[k]) # NoCol}>> :
                 h \in {CollectHeaders(worksheet, worksheet.ref.s.c,
                                       worksheet.ref.e.c)},
                 w \in {[k \in 1..Len(candidates) |-> norm(candidates[k])]}}} : TRUE

findColumnByHeader(worksheet, candidates) ==
  IF worksheet.ref = Undefined THEN NoCol
  ELSE CHOOSE col \in
         {IF pass1 # NoCol THEN pass1 ELSE PassOver(wants, "re", headers) :
            <<headers, wants, pass1>> \in
              {<<h, w, PassOver(w, "str", h)>> :
                 h \in {CollectHeaders(worksheet, worksheet.ref.s.c,
                                       worksheet.ref.e.c)},
                 w \in {[k \in 1..Len(candidates) |-> norm(candidates[k])]}}} : TRUE

SourceCandidates ==
  <<StrCand("Field Value"), StrCand("Base"), StrCand("Source"), StrCand("Text")>>

TargetCandidates ==
  <<ReCand(TranslatedStringRe), StrCand("Translation"), StrCand("Translated"),
    StrCand("Norsk")>>

\* x ?? d
OrElse(x, d) == IF x = NoCol THEN d ELSE x

resolveColumnsForSingleSheet(worksheet) ==
  [sourceColIndex |-> OrElse(findColumnByHeader(worksheet, SourceCandidates), 1),
   targetColIndex |-> OrElse(findColumnByHeader(worksheet, TargetCandidates), 3)]

\* ------------------------------------------------------------------------
\* Row extraction (processFile, step 1)
\* ------------------------------------------------------------------------

\* Qualifies as it would be if the value were not trimmed before the test
Qualifies_NoTrim(cell) ==
  /\ cell # Undefined
  /\ cell.t = "s"
  /\ IsString(cell.v)
  /\ Truthy(cell.v.str)

Qualifies(cell) ==
  /\ cell # Undefined
  /\ cell.t = "s"
  /\ IsString(cell.v)
  /\ Truthy(trim(cell.v.str))

\* The numbers of a finite set in increasing order
Ascending(S) ==
  [k \in 1..Cardinality(S) |->
     CHOOSE x \in S : Cardinality({y \in S : y < x}) = k - 1]

\* for (let r = range.s.r + 1; r <= range.e.r; r++) { ... rowsToTranslate.push }
\* : one item per qualifying row, in the order of the loop
ExtractRows(worksheet, sheetName, columns) ==
  CHOOSE rowsToTranslate \in
    {[k \in 1..Len(order) |->
        [sheetName |-> sheetName, row |-> order[k],
         original |-> trim(getCell(worksheet, columns.sourceColIndex, order[k]).v.str),
         targetColIndex |-> columns.targetColIndex]] :
       order \in {Ascending(pushed) :
                    pushed \in {{r \in (worksheet.ref.s.r + 1)..worksheet.ref.e.r :
                       Qualifies(getCell(worksheet, columns.sourceColIndex, r))}}}} : TRUE

\* UniqueList as it would be with an array in place of the Set: no
\* deduplication
UniqueList_NoSet(rows) == [k \in 1..Len(rows) |-> rows[k].original]

\* Array.from(uniqueTexts): uniqueTexts.add keeps the first insertion of each
\* original, so the list holds the originals in first-seen order, each once
UniqueList(rows) ==
  CHOOSE list \in
    {[k \in 1..Len(order) |-> rows[order[k]].original] :
       order \in {Ascending(firsts) :
                    firsts \in {{n \in 1..Len(rows) :
                       \A m \in 1..(n - 1) : rows[m].original # rows[n].original}}}} : TRUE

\* ------------------------------------------------------------------------
\* translateBatch
\* ------------------------------------------------------------------------
\* The reply of the translation service is either a thrown error or a text,
\* modelled as a sequence of segments:
\*   [seg |-> "think"]   a <think>...</think> block
\*   [seg |-> "prose"]   text without brackets
\*   [seg |-> "array", valid |-> whether it is valid JSON once trailing
\*        commas are removed, entries |-> the parsed array]
\* The array test of line 141 cannot fail: a text that starts with "[" and
\* parses as JSON is an array.

ThinkSeg == [seg |-> "think"]
ProseSeg == [seg |-> "prose"]
ArraySeg(valid, entries) == [seg |-> "array", valid |-> valid, entries |-> entries]

\* rawOutput.replace(/<think>[\s\S]*?<\/think>/, ""): drops the first block
RemoveFirstThink(text) ==
  LET at == {k \in 1..Len(text) : text[k].seg = "think"}
  IN IF at = {} THEN text
     ELSE LET f == CHOOSE k \in at : \A m \in at : k <= m
          IN SubSeq(text, 1, f - 1) \o SubSeq(text, f + 1, Len(text))

translateBatch(raw) ==
  IF raw.service = "throw"
  THEN [ok |-> FALSE, err |-> "translation service call failed"]
  ELSE LET cleanedOutput == RemoveFirstThink(raw.text)
           br == {k \in 1..Len(cleanedOutput) : cleanedOutput[k].seg = "array"}
       IN IF br = {}
          THEN [ok |-> FALSE, err |-> "Failed to extract JSON array from output"]
          ELSE LET first == CHOOSE k \in br : \A m \in br : k <= m
                   last == CHOOSE k \in br : \A m \in br : k >= m
               IN IF first = last /\ cleanedOutput[first].valid
                  THEN [ok |-> TRUE, value |-> cleanedOutput[first].entries]
                  ELSE [ok |-> FALSE, err |-> "Failed to parse JSON output"]

\* translationCache[key] = value
CachePut(cache, key, value) ==
  [k \in DOMAIN cache \cup {key} |-> IF k = key THEN value ELSE cache[k]]

\* CacheBlank as it would be if the catch block stored nothing
CacheBlank_Nothing(cache, batch) == cache

\* batch.forEach((original) => { translationCache[original] = ""; })
CacheBlank(cache, batch) ==
  LET blanked == {batch[k] : k \in 1..Len(batch)}
  IN [k \in DOMAIN cache \cup blanked |-> IF k \in blanked THEN "" ELSE cache[k]]

\* CacheStore as it would be if a key that already has an entry kept it
CacheStore_KeepPrior(cache, entries) ==
  LET keyless == {k \in 1..Len(entries) : "key" \notin DOMAIN entries[k]}
      stop == IF keyless = {} THEN Len(entries) + 1
              ELSE CHOOSE k \in keyless : \A m \in keyless : k <= m
      keys == {trim(entries[k].key) : k \in 1..(stop - 1)}
      LastFor(key) ==
        CHOOSE k \in 1..(stop - 1) :
          /\ trim(entries[k].key) = key
          /\ \A m \in (k + 1)..(stop - 1) : trim(entries[m].key) # key
  IN [cache |-> [key \in DOMAIN cache \cup keys |->
                   IF key \in DOMAIN cache THEN cache[key]
                   ELSE entries[LastFor(key)].value],
      threw |-> stop <= Len(entries)]

\* translatedBatch.forEach(...): entries are stored in order, a later entry
\* overwriting an earlier one with the same trimmed key; an entry without a
\* key makes translationObj.key.trim() throw a TypeError, which leaves the
\* entries before it in the cache.
CacheStore(cache, entries) ==
  LET LastFor(key, stop) ==
        CHOOSE k \in 1..(stop - 1) :
          /\ trim(entries[k].key) = key
          /\ \A m \in (k + 1)..(stop - 1) : trim(entries[m].key) # key
  IN CHOOSE stored \in
       {[cache |-> [key \in DOMAIN cache \cup keys |->
                      IF key \in keys THEN entries[LastFor(key, stop)].value
                      ELSE cache[key]],
         threw |-> stop <= Len(entries)] :
          <<stop, keys>> \in
            {<<s, {trim(entries[k].key) : k \in 1..(s - 1)}>> :
               s \in {IF keyless = {} THEN Len(entries) + 1
                      ELSE CHOOSE k \in keyless : \A m \in keyless : k <= m :
                        keyless \in {{k \in 1..Len(entries) :
                                        "key" \notin DOMAIN entries[k]}}}}} : TRUE

\* translationCache[item.original] || ""
CacheGet(cache, original) ==
  IF original \in DOMAIN cache /\ Truthy(cache[original])
  THEN cache[original] ELSE ""

\* Progress as it would be without Math.min
Progress_NoMin(i0, total) == MathRound100(i0 + batchSize, total)

\* Math.round((Math.min(uniqueList.length, i + batchSize) / uniqueList.length) * 100)
Progress(i0, total) == MathRound100(Min(total, i0 + batchSize), total)

\* AssignTranslations as it would be if the translation were appended to
\* item.translated instead of assigned
AssignTranslations_Append(rows, cache) ==
  [k \in 1..Len(rows) |->
     [sheetName |-> rows[k].sheetName, row |-> rows[k].row,
      original |-> rows[k].original, targetColIndex |-> rows[k].targetColIndex,
      translated |-> (IF "translated" \in DOMAIN rows[k] THEN rows[k].translated
                      ELSE "") \o CacheGet(cache, rows[k].original)]]

\* steps 3 and 4 of processFile: item.translated, then the target cells
AssignTranslations(rows, cache) ==
  [k \in 1..Len(rows) |->
     [sheetName |-> rows[k].sheetName, row |-> rows[k].row,
      original |-> rows[k].original, targetColIndex |-> rows[k].targetColIndex,
      translated |-> CacheGet(cache, rows[k].original)]]

\* WriteRows as it would be if every sheet were written, whatever
\* item.sheetName
WriteRows_EverySheet(wb, rows) ==
  LET Written == {encode_cell(rows[k].targetColIndex, rows[k].row) : k \in 1..Len(rows)}
      LastItem(a) ==
        rows[CHOOSE k \in 1..Len(rows) :
               /\ encode_cell(rows[k].targetColIndex, rows[k].row) = a
               /\ \A m \in (k + 1)..Len(rows) :
                    encode_cell(rows[m].targetColIndex, rows[m].row) # a]
  IN [wb EXCEPT !.Sheets =
        [name \in DOMAIN wb.Sheets |->
           [wb.Sheets[name] EXCEPT !.cells =
              [a \in DOMAIN wb.Sheets[name].cells \cup Written |->
                 IF a \in Written
                 THEN [t |-> "s", v |-> Str(LastItem(a).translated)]
                 ELSE wb.Sheets[name].cells[a]]]]]

\* rowsToTranslate.forEach((item) => { ws[ref] = { t: "s", v: item.translated || "" } })
\* : in each sheet that an item names, the cell at (targetColIndex, row) is
\* replaced, the last item for an address winning; items naming a sheet the
\* workbook does not have are skipped.
WriteRows(wb, rows) ==
  LET ItemsAt(name, a) ==
        {k \in 1..Len(rows) :
           /\ rows[k].sheetName = name
           /\ encode_cell(rows[k].targetColIndex, rows[k].row) = a}
      Written(name) ==
        {encode_cell(rows[k].targetColIndex, rows[k].row) :
           k \in {m \in 1..Len(rows) : rows[m].sheetName = name}}
      LastItem(name, a) ==
        rows[CHOOSE k \in ItemsAt(name, a) : \A m \in ItemsAt(name, a) : m <= k]
  IN [wb EXCEPT !.Sheets =
        [name \in DOMAIN wb.Sheets |->
           [wb.Sheets[name] EXCEPT !.cells =
              [a \in DOMAIN wb.Sheets[name].cells \cup Written(name) |->
                 IF a \in Written(name)
                 THEN [t |-> "s", v |-> Str(LastItem(name, a).translated)]
                 ELSE wb.Sheets[name].cells[a]]]]]

\* XLSX.write / XLSX.read: a buffer holds the workbook it was written from
XLSXwrite(wb) == [bookType |-> "xlsx", workbook |-> wb]
XLSXread(buffer) == buffer.workbook

\* ------------------------------------------------------------------------
\* The environment: stored files, the jobs table, requests, service replies
\* ------------------------------------------------------------------------

StrCell(s) == [t |-> "s", v |-> Str(s)]
NumCell(n) == [t |-> "n", v |-> Num(n)]

\* The sheet of the specification's scenario, with a padded duplicate, a
\* numeric source cell, a blank source cell and an old value in the target
\* column of a row that is not translated.
SmallSheet ==
  [ref |-> Range(0, 0, 3, 5),
   cells |->
     (<<0, 0>> :> StrCell("ID")) @@ (<<1, 0>> :> StrCell("Field Value")) @@
     (<<2, 0>> :> StrCell("X")) @@ (<<3, 0>> :> StrCell("Translated string (nb)")) @@
     (<<0, 1>> :> StrCell("1")) @@ (<<1, 1>> :> StrCell("Hello")) @@
     (<<0, 2>> :> StrCell("2")) @@ (<<1, 2>> :> StrCell(" Hello ")) @@
     (<<0, 3>> :> StrCell("3")) @@ (<<1, 3>> :> StrCell("Bye")) @@
     (<<0, 4>> :> StrCell("4")) @@ (<<1, 4>> :> NumCell(42)) @@
     (<<3, 4>> :> StrCell("old")) @@
     (<<0, 5>> :> StrCell("5")) @@ (<<1, 5>> :> StrCell("   "))]

NotesSheet == [ref |-> Range(0, 0, 0, 0), cells |-> (<<0, 0>> :> StrCell("Notes"))]

SmallWorkbook ==
  [SheetNames |-> <<"Sheet1", "Notes">>,
   Sheets |-> [n \in {"Sheet1", "Notes"} |->
                 IF n = "Sheet1" THEN SmallSheet ELSE NotesSheet]]

\* A sheet without matching headers (columns B and D by default) and with
\* BigRows data rows: "line1" .. "line<BigRows - 1>", then "line1" again.
BigSheet ==
  [ref |-> Range(0, 0, 3, BigRows),
   cells |->
     [a \in {<<0, 0>>, <<1, 0>>} \cup {<<1, r>> : r \in 1..BigRows} |->
        IF a[2] = 0 THEN StrCell(IF a[1] = 0 THEN "Key" ELSE "English")
        ELSE StrCell(IF a[2] = BigRows THEN "line1"
                     ELSE "line" \o ToString(a[2]))]]

BigWorkbook ==
  [SheetNames |-> <<"Data">>, Sheets |-> [n \in {"Data"} |-> BigSheet]]

\* A first sheet without "!ref"
EmptyWorkbook ==
  [SheetNames |-> <<"Sheet1">>,
   Sheets |-> [n \in {"Sheet1"} |-> [ref |-> Undefined, cells |-> <<>>]]]

UrlA == "https://storage/in/a.xlsx"
UrlA2 == "https://storage/copy/a.xlsx"
UrlBig == "https://storage/in/big.xlsx"
UrlEmpty == "https://storage/in/empty.xlsx"
UrlGone == "https://storage/in/gone.xlsx"

\* fileUrl.split("/")
split(url) ==
  CASE url = UrlA -> <<"https:", "", "storage", "in", "a.xlsx">>
    [] url = UrlA2 -> <<"https:", "", "storage", "copy", "a.xlsx">>
    [] url = UrlBig -> <<"https:", "", "storage", "in", "big.xlsx">>
    [] url = UrlEmpty -> <<"https:", "", "storage", "in", "empty.xlsx">>
    [] url = UrlGone -> <<"https:", "", "storage", "in", "gone.xlsx">>
    [] OTHER -> <<url>>

\* const fileName = urlParts[urlParts.length - 1]
FileNameOf(fileUrl) == Last(split(fileUrl))

\* `processed-${fileName}`
ProcessedName(name) == "processed-" \o name

\* the signed read URL that storage issues for an object
SignedUrlOf(name) == "https://storage/signed/" \o name

InitialBucket ==
  [n \in {"a.xlsx", "big.xlsx", "empty.xlsx"} |->
     XLSXwrite(CASE n = "a.xlsx" -> SmallWorkbook
                 [] n = "big.xlsx" -> BigWorkbook
                 [] OTHER -> EmptyWorkbook)]

JobIds == {"j1", "j2"}

InitialJobs ==
  [j \in JobIds |->
     [status |-> "queued", progress |-> 0, processed_file_url |-> NoString,
      custom_comments |-> IF j = "j2" THEN "Use formal language" ELSE NoString]]

\* supabase.from("jobs").update(fields).eq("job_id", jobId): the fields given
\* overwrite those of the row with that id (updated_at is left out of the
\* model); a job id without a row changes nothing.
update(table, jobId, fields) ==
  IF jobId \notin DOMAIN table THEN table
  ELSE [table EXCEPT ![jobId] =
          [f \in DOMAIN @ |-> IF f \in DOMAIN fields THEN fields[f] ELSE @[f]]]

\* The requests that can be in flight
Reqs == {"r1", "r2"}

\* Values of the x-api-key header ("" when absent)
AllKeys == {"", "wrong-key", API_KEY}
\* Values of body.fileUrl and body.jobId ("" when absent)
AllUrls == {"", UrlA, UrlBig, UrlEmpty, UrlGone}
AllIds == {"", "j1", "j2"}

\* The translation of a string
Tr(s) == "nb:" \o s

FullReply(batch) ==
  [k \in 1..Len(batch) |-> [key |-> batch[k], value |-> Tr(batch[k])]]

\* the reply without its last entry
ShortReply(batch) == SubSeq(FullReply(batch), 1, Len(batch) - 1)

\* the last entry has no key
KeylessReply(batch) ==
  Append(ShortReply(batch), [value |-> Tr(batch[Len(batch)])])

\* a single entry, without a key
LoneKeylessReply(batch) == <<[value |-> Tr(batch[1])]>>

\* an extra entry whose key is not a string of the batch
ForeignReply(batch) ==
  Append(FullReply(batch), [key |-> "line1 ", value |-> "nb:other"])

\* Replies of the translation service to a prompt for `batch`, by kind
RawOutputs(batch, kind) ==
  CASE kind = "fail" ->
         {[service |-> "throw"],
          [service |-> "ok", text |-> <<ProseSeg>>],
          [service |-> "ok", text |-> <<ThinkSeg, ArraySeg(FALSE, <<>>)>>],
          [service |-> "ok",
           text |-> <<ArraySeg(TRUE, <<>>), ProseSeg, ArraySeg(TRUE, FullReply(batch))>>]}
    [] kind = "full" ->
         {[service |-> "ok", text |-> <<ArraySeg(TRUE, FullReply(batch))>>],
          [service |-> "ok",
           text |-> <<ThinkSeg, ProseSeg, ArraySeg(TRUE, FullReply(batch)), ProseSeg>>]}
    [] kind = "short" ->
         {[service |-> "ok", text |-> <<ArraySeg(TRUE, ShortReply(batch))>>]}
    [] kind = "keyless" ->
         {[service |-> "ok", text |-> <<ArraySeg(TRUE, KeylessReply(batch))>>],
          [service |-> "ok", text |-> <<ArraySeg(TRUE, LoneKeylessReply(batch))>>]}
    [] OTHER ->
         {[service |-> "ok", text |-> <<ArraySeg(TRUE, ForeignReply(batch))>>]}

AllKinds == {"fail", "full", "short", "keyless", "foreign"}

\* ------------------------------------------------------------------------
\* State
\* ------------------------------------------------------------------------
VARIABLES
  variant,          \* which of the two handlers of server.js is deployed
  jobs,             \* the jobs table of the job-status store
  uploads,          \* the objects saved to the storage bucket, by name
  req,              \* per request: its x-api-key header and its body
  res,              \* per request: the HTTP status sent (0: none yet)
  pc,               \* per request: the await its handler/pipeline is at
  log,              \* per request: the external calls it made, in order
  err,              \* per request: the error processFile rejected with
  fileName,         \* locals of processFile, per request
  customHeader,
  workbook,
  rowsToTranslate,
  uniqueList,
  translationCache,
  i,
  call              \* a helper function called on its own: its arguments and,
                    \* once it has returned, its result (Undefined: none)

vars == <<call, variant, jobs, uploads, req, res, pc, log, err, fileName, customHeader,
          workbook, rowsToTranslate, uniqueList, translationCache, i>>

locals == <<fileName, customHeader, workbook, rowsToTranslate, uniqueList,
            translationCache, i>>

\* The server after start, with no request received
Idle ==
  /\ jobs = InitialJobs
  /\ uploads = <<>>
  /\ req = [r \in Reqs |-> [key |-> "", fileUrl |-> "", jobId |-> ""]]
  /\ res = [r \in Reqs |-> 0]
  /\ pc = [r \in Reqs |-> "idle"]
  /\ log = [r \in Reqs |-> <<>>]
  /\ err = [r \in Reqs |-> NoString]
  /\ fileName = [r \in Reqs |-> NoString]
  /\ customHeader = [r \in Reqs |-> NoString]
  /\ workbook = [r \in Reqs |-> Undefined]
  /\ rowsToTranslate = [r \in Reqs |-> <<>>]
  /\ uniqueList = [r \in Reqs |-> <<>>]
  /\ translationCache = [r \in Reqs |-> <<>>]
  /\ i = [r \in Reqs |-> 0]

Init ==
  /\ variant \in {1, 2}
  /\ call = Undefined
  /\ Idle

\* Entries of log
UpdateCall(jobId, fields) == [op |-> "update", job |-> jobId, fields |-> fields]
RespondCall(code) == [op |-> "respond", code |-> code]
SelectCall(jobId) == [op |-> "select", job |-> jobId]
DownloadCall(name) == [op |-> "download", name |-> name]
TranslateCall(header, batch) == [op |-> "translate", header |-> header, batch |-> batch]
ReplySeen(result) ==
  [op |-> "reply", ok |-> result.ok,
   entries |-> IF result.ok THEN result.value ELSE <<>>]
SaveCall(name) == [op |-> "save", name |-> name]
SignCall(name) == [op |-> "sign", name |-> name]

\* The bucket: the objects it held at the start, and those saved since
Bucket ==
  [n \in DOMAIN InitialBucket \cup DOMAIN uploads |->
     IF n \in DOMAIN uploads THEN uploads[n] ELSE InitialBucket[n]]

\* ------------------------------------------------------------------------
\* server.js: authenticate and the handler of POST /process-file
\* ------------------------------------------------------------------------

\* authenticate as it would be if any key that is present were accepted
authenticate_AnyKey(key) == Truthy(key)

\* authenticate lets the request through iff this holds
authenticate(key) == Truthy(key) /\ key = API_KEY

\* BodyComplete as it would be if only fileUrl were checked
BodyComplete_UrlOnly(body) == Truthy(body.fileUrl)

\* if (!fileUrl || !jobId) return res.status(400)
BodyComplete(body) == Truthy(body.fileUrl) /\ Truthy(body.jobId)

\* A request arrives: authenticate, then the handler up to its first await
\* (the update that sets status "processing").
Receive(r, Keys, Urls, Ids) ==
  /\ pc[r] = "idle"
  /\ \E key \in Keys, fileUrl \in Urls, jobId \in Ids :
       LET body == [key |-> key, fileUrl |-> fileUrl, jobId |-> jobId]
       IN /\ req' = [req EXCEPT ![r] = body]
          /\ IF ~authenticate(key)
             THEN /\ res' = [res EXCEPT ![r] = 401]
                  /\ log' = [log EXCEPT ![r] = Append(@, RespondCall(401))]
                  /\ pc' = [pc EXCEPT ![r] = "done"]
                  /\ UNCHANGED jobs
             ELSE IF ~BodyComplete(body)
             THEN /\ res' = [res EXCEPT ![r] = 400]
                  /\ log' = [log EXCEPT ![r] = Append(@, RespondCall(400))]
                  /\ pc' = [pc EXCEPT ![r] = "done"]
                  /\ UNCHANGED jobs
             ELSE /\ jobs' = update(jobs, jobId, [status |-> "processing"])
                  /\ log' = [log EXCEPT ![r] =
                               Append(@, UpdateCall(jobId, [status |-> "processing"]))]
                  /\ pc' = [pc EXCEPT ![r] = "await_processing"]
                  /\ UNCHANGED res
  /\ UNCHANGED <<variant, call, uploads, err, locals>>

\* The status sent as acknowledgement: 202 by the first handler of
\* server.js (line 53), 200 by the second (line 170).
AckCode == IF variant = 1 THEN 202 ELSE 200

\* AckAndStart as it would be if the handler answered only once the pipeline
\* had ended
AckAndStart_NoAck(jobId) == <<SelectCall(jobId)>>

\* The calls made after the "processing" update has returned: the first
\* handler responds and then calls processFile; the second calls processFile
\* (which runs up to its first await, the select) and then responds.
AckAndStart(jobId) ==
  IF variant = 1
  THEN <<RespondCall(AckCode), SelectCall(jobId)>>
  ELSE <<SelectCall(jobId), RespondCall(AckCode)>>

Start(r) ==
  /\ pc[r] = "await_processing"
  /\ res' = [res EXCEPT ![r] = AckCode]
  /\ fileName' = [fileName EXCEPT ![r] = FileNameOf(req[r].fileUrl)]
  /\ log' = [log EXCEPT ![r] = @ \o AckAndStart(req[r].jobId)]
  /\ pc' = [pc EXCEPT ![r] = "await_select"]
  /\ UNCHANGED <<variant, call, jobs, uploads, req, err, customHeader, workbook,
                 rowsToTranslate, uniqueList, translationCache, i>>

\* Rejected as it would be without the .catch callback
Rejected_NoCatch(r, message, lg) ==
  /\ err' = [err EXCEPT ![r] = message]
  /\ log' = [log EXCEPT ![r] = lg]
  /\ pc' = [pc EXCEPT ![r] = "await_terminal"]
  /\ UNCHANGED jobs

\* processFile rejects with `message`: the .catch callback of the handler
\* sets status "error".
Rejected(r, message, lg) ==
  /\ err' = [err EXCEPT ![r] = message]
  /\ jobs' = update(jobs, req[r].jobId, [status |-> "error"])
  /\ log' = [log EXCEPT ![r] =
               Append(lg, UpdateCall(req[r].jobId, [status |-> "error"]))]
  /\ pc' = [pc EXCEPT ![r] = "await_terminal"]

\* Resolved as it would be if the .then callback threw after its update, so
\* that the .catch callback ran too
Resolved_ThenCatch(r, processedFileUrl, lg) ==
  LET fields == [status |-> "completed", processed_file_url |-> processedFileUrl]
  IN /\ jobs' = update(jobs, req[r].jobId, [status |-> "error"])
     /\ log' = [log EXCEPT ![r] =
                  lg \o <<UpdateCall(req[r].jobId, fields),
                          UpdateCall(req[r].jobId, [status |-> "error"])>>]
     /\ pc' = [pc EXCEPT ![r] = "await_terminal"]
     /\ UNCHANGED err

\* processFile resolves with the signed URL: the .then callback sets status
\* "completed" and processed_file_url.
Resolved(r, processedFileUrl, lg) ==
  LET fields == [status |-> "completed", processed_file_url |-> processedFileUrl]
  IN /\ jobs' = update(jobs, req[r].jobId, fields)
     /\ log' = [log EXCEPT ![r] = Append(lg, UpdateCall(req[r].jobId, fields))]
     /\ pc' = [pc EXCEPT ![r] = "await_terminal"]
     /\ UNCHANGED err

\* The terminal update has returned: the callback ends.
Finish(r) ==
  /\ pc[r] = "await_terminal"
  /\ pc' = [pc EXCEPT ![r] = "done"]
  /\ UNCHANGED <<variant, call, jobs, uploads, req, res, log, err, locals>>

\* ------------------------------------------------------------------------
\* fileProcessor.js: processFile
\* ------------------------------------------------------------------------

\* customComments ? `\nAdditional instructions: ${customComments}` : ""
CustomHeaderOf(job) ==
  IF Truthy(job.custom_comments)
  THEN "\nAdditional instructions: " \o job.custom_comments
  ELSE ""

\* The select of custom_comments returns: an error (also when no row has the
\* job id) makes processFile throw; otherwise the download is issued.
SelectReturns(r, Faults) ==
  /\ pc[r] = "await_select"
  /\ \E fault \in Faults :
       IF fault \/ req[r].jobId \notin DOMAIN jobs
       THEN /\ Rejected(r, "select failed", log[r])
            /\ UNCHANGED customHeader
       ELSE /\ customHeader' = [customHeader EXCEPT ![r] = CustomHeaderOf(jobs[req[r].jobId])]
            /\ log' = [log EXCEPT ![r] = Append(@, DownloadCall(fileName[r]))]
            /\ pc' = [pc EXCEPT ![r] = "await_download"]
            /\ UNCHANGED <<jobs, err>>
  /\ UNCHANGED <<variant, call, uploads, req, res, fileName, workbook, rowsToTranslate,
                 uniqueList, translationCache, i>>

\* const batch = uniqueList.slice(i, i + batchSize)
BatchAt(list, i0) == slice(list, i0, i0 + batchSize)

\* Continue as it would be if the requests of two batches were issued at once
Continue_TwoAtOnce(r, wb, rows, list, cache, i0, lg) ==
  /\ i' = [i EXCEPT ![r] = i0]
  /\ IF i0 < Len(list)
     THEN /\ rowsToTranslate' = [rowsToTranslate EXCEPT ![r] = rows]
          /\ workbook' = [workbook EXCEPT ![r] = wb]
          /\ log' = [log EXCEPT ![r] =
                       lg \o <<TranslateCall(customHeader[r], BatchAt(list, i0)),
                               TranslateCall(customHeader[r],
                                             BatchAt(list, i0 + batchSize))>>]
          /\ pc' = [pc EXCEPT ![r] = "await_translate"]
     ELSE \E items \in {AssignTranslations(rows, cache)} :
            /\ rowsToTranslate' = [rowsToTranslate EXCEPT ![r] = items]
            /\ workbook' = [workbook EXCEPT ![r] = WriteRows(wb, items)]
            /\ log' = [log EXCEPT ![r] =
                         Append(lg, SaveCall(ProcessedName(fileName[r])))]
            /\ pc' = [pc EXCEPT ![r] = "await_save"]

\* The test of the for loop at i = i0 and what follows it without an await:
\* either the next batch's translateBatch call, or (loop over) steps 3 and 4
\* and the upload of the written workbook.
Continue(r, wb, rows, list, cache, i0, lg) ==
  /\ i' = [i EXCEPT ![r] = i0]
  /\ IF i0 < Len(list)
     THEN /\ rowsToTranslate' = [rowsToTranslate EXCEPT ![r] = rows]
          /\ workbook' = [workbook EXCEPT ![r] = wb]
          /\ log' = [log EXCEPT ![r] =
                       Append(lg, TranslateCall(customHeader[r], BatchAt(list, i0)))]
          /\ pc' = [pc EXCEPT ![r] = "await_translate"]
     ELSE \E items \in {AssignTranslations(rows, cache)} :
            /\ rowsToTranslate' = [rowsToTranslate EXCEPT ![r] = items]
            /\ workbook' = [workbook EXCEPT ![r] = WriteRows(wb, items)]
            /\ log' = [log EXCEPT ![r] =
                         Append(lg, SaveCall(ProcessedName(fileName[r])))]
            /\ pc' = [pc EXCEPT ![r] = "await_save"]

\* The download returns: it throws (always so when the object does not
\* exist), or the workbook is read, the first sheet checked, the columns
\* resolved, the rows extracted and the first batch sent.
DownloadReturns(r, Faults) ==
  /\ pc[r] = "await_download"
  /\ \E fault \in Faults :
       IF fault \/ fileName[r] \notin DOMAIN Bucket
       THEN /\ Rejected(r, "download failed", log[r])
            /\ UNCHANGED <<workbook, rowsToTranslate, uniqueList, i>>
       ELSE \E wb \in {XLSXread(Bucket[fileName[r]])} :
            \E sheetName \in {wb.SheetNames[1]} :
            \E worksheet \in {wb.Sheets[sheetName]} :
              IF worksheet.ref = Undefined
              THEN /\ Rejected(r, "No data range found in the first sheet.", log[r])
                   /\ workbook' = [workbook EXCEPT ![r] = wb]
                   /\ UNCHANGED <<rowsToTranslate, uniqueList, i>>
              ELSE \E columns \in {resolveColumnsForSingleSheet(worksheet)} :
                   \E rows \in {ExtractRows(worksheet, sheetName, columns)} :
                   \E list \in {UniqueList(rows)} :
                     /\ uniqueList' = [uniqueList EXCEPT ![r] = list]
                     /\ Continue(r, wb, rows, list, <<>>, 0, log[r])
                     /\ UNCHANGED <<jobs, err>>
  /\ UNCHANGED <<variant, call, uploads, req, res, fileName, customHeader, translationCache>>

\* translateBatch returns or throws for the batch at i.
\*  - it throws: the batch's strings get "" and the loop goes on (continue);
\*  - it returns an array: its entries are stored; an entry without a key
\*    throws outside the try block, so processFile rejects; otherwise the
\*    progress update is issued.
TranslateReturns(r, Kinds) ==
  /\ pc[r] = "await_translate"
  /\ \E batch \in {BatchAt(uniqueList[r], i[r])} :
     \E kind \in Kinds : \E raw \in RawOutputs(batch, kind) :
     \E translatedBatch \in {translateBatch(raw)} :
     \E lg \in {Append(log[r], ReplySeen(translatedBatch))} :
             IF ~translatedBatch.ok
             THEN \E cache \in {CacheBlank(translationCache[r], batch)} :
                     /\ translationCache' = [translationCache EXCEPT ![r] = cache]
                     /\ Continue(r, workbook[r], rowsToTranslate[r], uniqueList[r],
                                 cache, i[r] + batchSize, lg)
                     /\ UNCHANGED <<jobs, err>>
             ELSE \E stored \in {CacheStore(translationCache[r], translatedBatch.value)} :
                  \E progress \in {Progress(i[r], Len(uniqueList[r]))} :
                     /\ translationCache' = [translationCache EXCEPT ![r] = stored.cache]
                     /\ IF stored.threw
                        THEN Rejected(r, "TypeError: Cannot read properties of undefined (reading 'trim')", lg)
                        ELSE /\ jobs' = update(jobs, req[r].jobId, [progress |-> progress])
                             /\ log' = [log EXCEPT ![r] =
                                          Append(lg, UpdateCall(req[r].jobId,
                                                                [progress |-> progress]))]
                             /\ pc' = [pc EXCEPT ![r] = "await_progress"]
                             /\ UNCHANGED err
                     /\ UNCHANGED <<workbook, rowsToTranslate, i>>
  /\ UNCHANGED <<variant, call, uploads, req, res, fileName, customHeader, uniqueList>>

\* The progress update returns: i += batchSize and the loop goes on.
ProgressReturns(r) ==
  /\ pc[r] = "await_progress"
  /\ Continue(r, workbook[r], rowsToTranslate[r], uniqueList[r],
              translationCache[r], i[r] + batchSize, log[r])
  /\ UNCHANGED <<variant, call, jobs, uploads, req, res, err, fileName, customHeader,
                 uniqueList, translationCache>>

\* SaveReturns as it would be if save() resolved without storing the object
SaveReturns_NothingStored(r, Faults) ==
  /\ pc[r] = "await_save"
  /\ \E fault \in Faults :
       IF fault
       THEN /\ Rejected(r, "upload failed", log[r])
            /\ UNCHANGED uploads
       ELSE /\ UNCHANGED uploads
            /\ log' = [log EXCEPT ![r] = Append(@, SignCall(ProcessedName(fileName[r])))]
            /\ pc' = [pc EXCEPT ![r] = "await_sign"]
            /\ UNCHANGED <<jobs, err>>
  /\ UNCHANGED <<variant, call, req, res, locals>>

\* processedFile.save returns: it throws, or the object is stored under
\* processed-<fileName> and the signed URL is requested.
SaveReturns(r, Faults) ==
  /\ pc[r] = "await_save"
  /\ \E fault \in Faults :
       IF fault
       THEN /\ Rejected(r, "upload failed", log[r])
            /\ UNCHANGED uploads
       ELSE LET processedFileName == ProcessedName(fileName[r])
            IN /\ uploads' = [n \in DOMAIN uploads \cup {processedFileName} |->
                                IF n = processedFileName
                                THEN XLSXwrite(workbook[r]) ELSE uploads[n]]
               /\ log' = [log EXCEPT ![r] = Append(@, SignCall(processedFileName))]
               /\ pc' = [pc EXCEPT ![r] = "await_sign"]
               /\ UNCHANGED <<jobs, err>>
  /\ UNCHANGED <<variant, call, req, res, locals>>

\* getSignedUrl returns: it throws, or processFile resolves with the URL.
SignReturns(r, Faults) ==
  /\ pc[r] = "await_sign"
  /\ \E fault \in Faults :
       IF fault
       THEN Rejected(r, "signing failed", log[r])
       ELSE Resolved(r, SignedUrlOf(ProcessedName(fileName[r])), log[r])
  /\ UNCHANGED <<variant, call, uploads, req, res, locals>>

\* ------------------------------------------------------------------------
\* Specifications
\* ------------------------------------------------------------------------

\* What a request does after it was received: each disjunct is the
\* resumption of one await.
Pipeline(r, Faults, Kinds) ==
  \/ Start(r)
  \/ SelectReturns(r, Faults)
  \/ DownloadReturns(r, Faults)
  \/ TranslateReturns(r, Kinds)
  \/ ProgressReturns(r)
  \/ SaveReturns(r, Faults)
  \/ SignReturns(r, Faults)
  \/ Finish(r)

\* One request, every input and every outcome of every external call.
Next ==
  \E r \in {"r1"} :
    \/ Receive(r, AllKeys, AllUrls, AllIds)
    \/ Pipeline(r, BOOLEAN, AllKinds)

Spec == Init /\ [][Next]_vars

\* Every external call returns or throws: each await is resumed.
FairSpec == Spec /\ WF_vars(Pipeline("r1", BOOLEAN, AllKinds))

\* Two authenticated requests for the small sheet, under either of two URLs
\* that end in the same file name, whose pipelines interleave at every await;
\* storage and the status store do not fail, a translation batch may.
ConcUrls == {UrlA, UrlA2}
ConcKinds == {"fail", "full"}

NextConc ==
  \E r \in Reqs :
    \/ Receive(r, {API_KEY}, ConcUrls, JobIds)
    \/ Pipeline(r, {FALSE}, ConcKinds)

SpecConc == Init /\ [][NextConc]_vars

FairSpecConc ==
  SpecConc /\ \A r \in Reqs : WF_vars(Pipeline(r, {FALSE}, ConcKinds))

\* ------------------------------------------------------------------------
\* The helper functions called on their own, on generated inputs
\* ------------------------------------------------------------------------

\* Length of the generated header rows
HeaderCols == 3

\* What a header cell can hold: nothing, a number, or one of these texts
HeaderTexts ==
  {"Translation", "TRANSLATION", " Translation", "Translated string (nb)",
   "Translated strings", "Norsk", "Text", "   ", "X"}

HeaderCells == {Undefined, NumCell(7)} \cup {StrCell(s) : s \in HeaderTexts}

\* the sheet whose header row is `row` (a sequence of cells), starting at
\* column 0, with one data row
HeaderSheet(row) ==
  [ref |-> Range(0, 0, Len(row) - 1, 1),
   cells |-> [a \in {<<c, 0>> : c \in {k - 1 : k \in {m \in 1..Len(row) :
                                                        row[m] # Undefined}}}
                \cup {<<0, 1>>} |->
                IF a[2] = 0 THEN row[a[1] + 1] ELSE StrCell("Hello")]]

\* Candidate lists: those of resolveColumnsForSingleSheet, and others that
\* order patterns and strings differently
CandidateLists ==
  {SourceCandidates, TargetCandidates,
   <<StrCand("Norsk"), StrCand("Translation"), ReCand(TranslatedStringRe)>>,
   <<ReCand(TranslatedStringRe)>>,
   <<>>}

InitColumns ==
  /\ variant = 1
  /\ Idle
  /\ \E row \in [1..HeaderCols -> HeaderCells], candidates \in CandidateLists :
       call = [fn |-> "findColumnByHeader", worksheet |-> HeaderSheet(row),
               candidates |-> candidates, returned |-> FALSE]

\* findColumnByHeader(worksheet, candidates) and
\* resolveColumnsForSingleSheet(worksheet) return
ColumnsReturn ==
  /\ call # Undefined
  /\ call.fn = "findColumnByHeader"
  /\ ~call.returned
  /\ call' = [fn |-> call.fn, worksheet |-> call.worksheet,
              candidates |-> call.candidates, returned |-> TRUE,
              col |-> findColumnByHeader(call.worksheet, call.candidates),
              columns |-> resolveColumnsForSingleSheet(call.worksheet)]
  /\ UNCHANGED <<variant, jobs, uploads, req, res, pc, log, err, locals>>

SpecColumns == InitColumns /\ [][ColumnsReturn]_vars

\* Number of data rows of the generated sheets
DataRows == 3

\* What a data cell of the source column can hold
SourceCells ==
  {Undefined, NumCell(42), StrCell("Hello"), StrCell(" Hello "), StrCell("Bye"),
   StrCell("   "), StrCell("")}

\* What a data cell of the target column can hold before the run
TargetCells == {Undefined, StrCell("old")}

\* the first sheet with header row ID | Text | X | Translation and, in data
\* row r, source[r] in the source column and target[r] in the target column
DataSheet(source, target) ==
  [ref |-> Range(0, 0, 3, Len(source)),
   cells |->
     [a \in {<<c, 0>> : c \in 0..3}
            \cup {<<0, r>> : r \in 1..Len(source)}
            \cup {<<1, r>> : r \in {m \in 1..Len(source) : source[m] # Undefined}}
            \cup {<<3, r>> : r \in {m \in 1..Len(target) : target[m] # Undefined}} |->
        IF a[2] = 0
        THEN StrCell(CASE a[1] = 0 -> "ID" [] a[1] = 1 -> "Text"
                       [] a[1] = 2 -> "X" [] OTHER -> "Translation")
        ELSE CASE a[1] = 0 -> NumCell(a[2])
               [] a[1] = 1 -> source[a[2]]
               [] OTHER -> target[a[2]]]]

InitExtract ==
  /\ variant = 1
  /\ Idle
  /\ \E source \in [1..DataRows -> SourceCells] :
       call = [fn |-> "extract", worksheet |-> DataSheet(source, [r \in 1..DataRows |-> Undefined]),
               returned |-> FALSE]

\* Step 1 of processFile on the first sheet: the columns are resolved and
\* the rows collected
ExtractReturn ==
  /\ call # Undefined
  /\ call.fn = "extract"
  /\ ~call.returned
  /\ \E columns \in {resolveColumnsForSingleSheet(call.worksheet)} :
       call' = [fn |-> call.fn, worksheet |-> call.worksheet, returned |-> TRUE,
                columns |-> columns,
                rowsToTranslate |-> ExtractRows(call.worksheet, "Sheet1", columns)]
  /\ UNCHANGED <<variant, jobs, uploads, req, res, pc, log, err, locals>>

SpecExtract == InitExtract /\ [][ExtractReturn]_vars

\* A workbook whose first sheet is `sheet` and whose second sheet has the
\* same cells
TwoSheets(sheet) ==
  [SheetNames |-> <<"Sheet1", "Copy">>,
   Sheets |-> [n \in {"Sheet1", "Copy"} |-> sheet]]

\* Translation caches at the end of the batch loop: empty, complete, and
\* one with a blanked and a missing entry
Caches ==
  {<<>>,
   ("Hello" :> Tr("Hello")) @@ ("Bye" :> Tr("Bye")),
   ("Hello" :> "")}

InitWrite ==
  /\ variant = 1
  /\ Idle
  /\ \E source \in [1..DataRows -> SourceCells],
        target \in [1..DataRows -> TargetCells], cache \in Caches :
       call = [fn |-> "write", before |-> TwoSheets(DataSheet(source, target)),
               workbook |-> TwoSheets(DataSheet(source, target)),
               translationCache |-> cache, rowsToTranslate |-> <<>>,
               first |-> Undefined, runs |-> 0]

\* Steps 3 and 4 of processFile run on the workbook: the first time on the
\* rows that step 1 collects, the second time on the same row list and
\* cache and on the workbook as the first run left it.
WriterReturns ==
  /\ call # Undefined
  /\ call.fn = "write"
  /\ call.runs < 2
  /\ \E rows \in {IF call.runs = 0
                   THEN ExtractRows(call.workbook.Sheets[call.workbook.SheetNames[1]],
                                    call.workbook.SheetNames[1],
                                    resolveColumnsForSingleSheet(
                                      call.workbook.Sheets[call.workbook.SheetNames[1]]))
                   ELSE call.rowsToTranslate} :
     \E items \in {AssignTranslations(rows, call.translationCache)} :
     \E written \in {WriteRows(call.workbook, items)} :
       call' = [call EXCEPT !.rowsToTranslate = items,
                            !.workbook = written,
                            !.first = IF call.runs = 0 THEN written ELSE @,
                            !.runs = @ + 1]
  /\ UNCHANGED <<variant, jobs, uploads, req, res, pc, log, err, locals>>

SpecWrite == InitWrite /\ [][WriterReturns]_vars

\* ------------------------------------------------------------------------
\* Reading the log of a request
\* ------------------------------------------------------------------------

IsStatusUpdate(e, statuses) ==
  e.op = "update" /\ "status" \in DOMAIN e.fields /\ e.fields.status \in statuses

IsProgressUpdate(e) == e.op = "update" /\ "progress" \in DOMAIN e.fields

IsTerminalUpdate(e) == IsStatusUpdate(e, {"completed", "error"})

\* the positions in the log of r of the calls of one kind
At(r, op) == {k \in 1..Len(log[r]) : log[r][k].op = op}
ProgressAt(r) == {k \in 1..Len(log[r]) : IsProgressUpdate(log[r][k])}
TerminalAt(r) == {k \in 1..Len(log[r]) : IsTerminalUpdate(log[r][k])}

\* A reply is logged right after the translateBatch call it answers.
BatchOfReply(r, k) == log[r][k - 1].batch

\* the offset i of the batch whose reply is at position k
OffsetOfReply(r, k) ==
  batchSize * (Cardinality({m \in At(r, "translate") : m < k}) - 1)

\* The batch loop is over and steps 3 and 4 (writing) have been done: the
\* upload of the written workbook has been issued.
WritingBegun(r) == At(r, "save") # {}

\* processFile was called for r
PipelineStarted(r) == At(r, "select") # {}

\* A reply after which the loop goes on: the call failed, or it returned an
\* array whose entries all have a key.
BatchCompleted(r, k) ==
  /\ log[r][k].op = "reply"
  /\ \A m \in 1..Len(log[r][k].entries) : "key" \in DOMAIN log[r][k].entries[m]

\* ------------------------------------------------------------------------
\* C1..C10
\* ------------------------------------------------------------------------

\* C1: after every batch, whether its translation call succeeded or failed,
\* one progress update with value round(100 * min(i + 100, U) / U) is sent
\* before the next batch (or the upload) starts.  Violated: the catch block
\* of a failed call ends in `continue`, which skips the progress update.
C1_ProgressAfterEveryBatch ==
  \A r \in Reqs : \A k \in At(r, "reply") :
    BatchCompleted(r, k) =>
      /\ k < Len(log[r])
      /\ IsProgressUpdate(log[r][k + 1])
      /\ log[r][k + 1].fields.progress =
           MathRound100(Min(OffsetOfReply(r, k) + 100, Len(uniqueList[r])),
                        Len(uniqueList[r]))

\* C2: in a run over a sheet with at least one unique string, the last
\* progress written before the upload and the terminal status is 100, for
\* every combination of batch outcomes.  Violated when the call for the
\* final batch fails (no progress update for it, see C1).
C2_FinalProgressIs100 ==
  \A r \in Reqs :
    (WritingBegun(r) /\ Len(uniqueList[r]) >= 1) =>
      /\ ProgressAt(r) # {}
      /\ log[r][CHOOSE k \in ProgressAt(r) : \A m \in ProgressAt(r) : m <= k]
           .fields.progress = 100

\* C3 as stated: when writing begins, the cache has an entry for every
\* unique original string.  Violated by a successful reply that omits a key.
C3_CacheCoversEveryUnique ==
  \A r \in Reqs :
    WritingBegun(r) =>
      \A k \in 1..Len(uniqueList[r]) : uniqueList[r][k] \in DOMAIN translationCache[r]

\* the strings of the batches whose call failed
Blanked(r) ==
  UNION {{BatchOfReply(r, k)[m] : m \in 1..Len(BatchOfReply(r, k))} :
           k \in {n \in At(r, "reply") : ~log[r][n].ok}}

\* the trimmed keys of the entries of the arrays returned
Returned(r) ==
  UNION {{trim(log[r][k].entries[m].key) :
            m \in {n \in 1..Len(log[r][k].entries) : "key" \in DOMAIN log[r][k].entries[n]}} :
           k \in {n \in At(r, "reply") : log[r][n].ok}}

\* C3 amended: when writing begins, a unique original string has a cache
\* entry exactly if the call for its batch failed (entry "") or some returned
\* array had an entry whose trimmed key is that string; every row whose
\* original has no entry is written as the empty string.
C3_CacheCoversBlankedAndReturned ==
  \A r \in Reqs :
    WritingBegun(r) =>
      /\ DOMAIN translationCache[r] = Blanked(r) \cup Returned(r)
      /\ \A k \in 1..Len(rowsToTranslate[r]) :
           rowsToTranslate[r][k].original \notin DOMAIN translationCache[r]
             => rowsToTranslate[r][k].translated = ""

\* C3 witness: writing has begun with one unique string cached from a reply
\* and another, omitted by that reply, without an entry.
C3_Witness ==
  \E r \in Reqs :
    /\ WritingBegun(r)
    /\ \E a, b \in 1..Len(uniqueList[r]) :
         /\ uniqueList[r][a] \in DOMAIN translationCache[r]
         /\ uniqueList[r][b] \notin DOMAIN translationCache[r]

\* the errors that translateBatch throws
TranslateErrors ==
  {"translation service call failed", "Failed to extract JSON array from output",
   "Failed to parse JSON output"}

\* the trimmed keys returned by the replies after position k
ReturnedAfter(r, k) ==
  UNION {{trim(log[r][n].entries[m].key) :
            m \in {j \in 1..Len(log[r][n].entries) : "key" \in DOMAIN log[r][n].entries[j]}} :
           n \in {j \in At(r, "reply") : j > k}}

\* C4: when the translation call for a batch fails, every string of the
\* batch gets the empty string as its cache entry (it stays "" unless a later
\* reply returns that key), the loop goes on with the next batch or, after
\* the last batch, with the upload, and the failure is never the error that
\* processFile rejects with: a run that ends with status error was rejected
\* for another reason, and a run that is not rejected ends completed.
C4_FailedBatchIsBlankedAndSkipped ==
  \A r \in Reqs :
    /\ err[r] \notin TranslateErrors
    /\ \A k \in At(r, "reply") :
         ~log[r][k].ok =>
           LET batch == BatchOfReply(r, k)
               next == OffsetOfReply(r, k) + batchSize
           IN /\ \A m \in 1..Len(batch) :
                   /\ batch[m] \in DOMAIN translationCache[r]
                   /\ translationCache[r][batch[m]] = ""
                        \/ batch[m] \in ReturnedAfter(r, k)
              /\ k < Len(log[r])
              /\ IF next < Len(uniqueList[r])
                 THEN /\ log[r][k + 1].op = "translate"
                      /\ log[r][k + 1].batch =
                           SubSeq(uniqueList[r], next + 1,
                                  Min(next + batchSize, Len(uniqueList[r])))
                 ELSE log[r][k + 1].op = "save"
              /\ (pc[r] = "done" /\ err[r] = NoString) =>
                   /\ ProcessedName(fileName[r]) \in DOMAIN uploads
                   /\ IsStatusUpdate(Last(log[r]), {"completed"})
                   /\ jobs[req[r].jobId].status = "completed"

\* C4 witness: a run whose translation call failed for a batch has ended
\* with the file uploaded and status completed.
C4_Witness ==
  \E r \in Reqs :
    /\ pc[r] = "done"
    /\ \E k \in At(r, "reply") : ~log[r][k].ok
    /\ ProcessedName(fileName[r]) \in DOMAIN uploads
    /\ jobs[req[r].jobId].status = "completed"

\* C5: a run of the handler that starts the pipeline writes at most one
\* terminal status, nothing after it, and exactly one once processFile has
\* settled: completed with the signed URL if processFile resolved, error if
\* it rejected.
C5_OneTerminalStatus ==
  \A r \in Reqs :
    /\ Cardinality(TerminalAt(r)) <= 1
    /\ TerminalAt(r) \subseteq {Len(log[r])}
    /\ (PipelineStarted(r) /\ pc[r] \in {"await_terminal", "done"}) =>
         /\ TerminalAt(r) = {Len(log[r])}
         /\ IF err[r] = NoString
            THEN Last(log[r]).fields =
                   [status |-> "completed",
                    processed_file_url |-> SignedUrlOf(ProcessedName(fileName[r]))]
            ELSE Last(log[r]).fields = [status |-> "error"]
    /\ (PipelineStarted(r) /\ pc[r] \notin {"await_terminal", "done"}) =>
         TerminalAt(r) = {}

\* C5 witness: one run has ended completed, or one has ended in error after
\* progress was written.
C5_Witness ==
  \E r \in Reqs :
    /\ pc[r] = "done"
    /\ ProgressAt(r) # {}
    /\ IsStatusUpdate(Last(log[r]), {"error"})

\* the cell that the writer set for an item
TargetCell(r, item) ==
  workbook[r].Sheets[item.sheetName].cells[encode_cell(item.targetColIndex, item.row)]

\* C6: the batches sent are, in order, the consecutive slices of 100 of the
\* unique-string list, which holds every original of the rows once, in
\* first-seen order; so each unique string is in exactly one request (all of
\* them once the loop is over), and after writing all rows with the same
\* original hold the same value in their target cell.
C6_OneRequestPerUniqueString ==
  \A r \in Reqs :
    LET list == uniqueList[r]
        rows == rowsToTranslate[r]
        calls == SelectSeq(log[r], LAMBDA e : e.op = "translate")
        originals == {rows[k].original : k \in 1..Len(rows)}
        \* the first row that holds each unique string
        first == [a \in 1..Len(list) |->
                    IF list[a] \in originals
                    THEN CHOOSE k \in 1..Len(rows) :
                           /\ rows[k].original = list[a]
                           /\ \A m \in 1..(k - 1) : rows[m].original # list[a]
                    ELSE 0]
        \* the value written for each original
        written == [u \in originals |->
                      {TargetCell(r, rows[k]) :
                         k \in {m \in 1..Len(rows) : rows[m].original = u}}]
    IN /\ Cardinality({list[a] : a \in 1..Len(list)}) = Len(list)
       /\ {list[a] : a \in 1..Len(list)} = originals
       /\ \A a \in 1..(Len(list) - 1) : first[a] < first[a + 1]
       /\ \A c \in 1..Len(calls) :
            calls[c].batch =
              SubSeq(list, 100 * (c - 1) + 1, Min(100 * c, Len(list)))
       /\ WritingBegun(r) =>
            /\ 100 * Len(calls) >= Len(list)
            /\ \A a \in 1..Len(list) :
                 Cardinality({c \in 1..Len(calls) :
                                \E m \in 1..Len(calls[c].batch) :
                                  calls[c].batch[m] = list[a]}) = 1
            /\ \A u \in originals : Cardinality(written[u]) = 1

\* C6 witness: writing is done for a sheet with a repeated original whose
\* unique strings were sent in two batches.
C6_Witness ==
  \E r \in Reqs :
    /\ WritingBegun(r)
    /\ Cardinality(At(r, "translate")) = 2
    /\ Len(rowsToTranslate[r]) > Len(uniqueList[r])

\* the last progress that r wrote (0, the initial value, if it wrote none)
LastProgress(r) ==
  IF ProgressAt(r) = {} THEN 0
  ELSE log[r][CHOOSE k \in ProgressAt(r) : \A m \in ProgressAt(r) : m <= k]
         .fields.progress

\* C7: jobs with distinct job ids that run concurrently do not interact:
\* when a job is completed, the object its result URL designates is the
\* workbook that this job wrote, and its row of the jobs table holds its own
\* progress and URL, as if it had run alone.  Violated: two jobs whose file
\* URLs end in the same file name save to the same object,
\* processed-<fileName>, and the later save replaces the earlier output.
C7_JobsDoNotInteract ==
  \A r \in Reqs :
    (/\ \A q \in Reqs \ {r} : req[q].jobId # req[r].jobId
     /\ pc[r] \in {"await_terminal", "done"}
     /\ PipelineStarted(r)
     /\ err[r] = NoString) =>
      /\ jobs[req[r].jobId].status = "completed"
      /\ jobs[req[r].jobId].progress = LastProgress(r)
      /\ jobs[req[r].jobId].processed_file_url =
           SignedUrlOf(ProcessedName(fileName[r]))
      /\ Bucket[ProcessedName(fileName[r])] = XLSXwrite(workbook[r])

\* C8: a request whose body lacks fileUrl or jobId is answered 400 (401 if
\* it does not pass authenticate, which runs first), updates nothing in the
\* job-status store and does not start the pipeline.
C8_IncompleteBodyRejected ==
  \A r \in Reqs :
    (pc[r] # "idle" /\ (req[r].fileUrl = "" \/ req[r].jobId = "")) =>
      /\ pc[r] = "done"
      /\ res[r] = IF req[r].key = API_KEY THEN 400 ELSE 401
      /\ At(r, "update") = {}
      /\ ~PipelineStarted(r)
      /\ (\A q \in Reqs \ {r} : pc[q] = "idle") => jobs = InitialJobs

\* C8 witness: an authenticated request without jobId was answered 400.
C8_Witness ==
  \E r \in Reqs :
    /\ pc[r] = "done"
    /\ req[r].key = API_KEY
    /\ req[r].fileUrl # ""
    /\ req[r].jobId = ""
    /\ res[r] = 400

\* the positions of the effects of the pipeline of r
EffectsAt(r) ==
  At(r, "download") \cup At(r, "translate") \cup ProgressAt(r)
    \cup At(r, "save") \cup At(r, "sign") \cup TerminalAt(r)

\* C9: for a valid request the update that sets status processing is the
\* first call and has returned before anything else happens; the
\* acknowledgement is sent next, in the step that calls processFile, so it
\* precedes every effect of the pipeline and does not wait for the terminal
\* status.
C9_ProcessingThenAckThenPipeline ==
  \A r \in Reqs :
    /\ pc[r] = "await_processing" =>
         /\ log[r] = <<UpdateCall(req[r].jobId, [status |-> "processing"])>>
         /\ res[r] = 0
    /\ PipelineStarted(r) =>
         /\ log[r][1] = UpdateCall(req[r].jobId, [status |-> "processing"])
         /\ res[r] \in {200, 202}
         /\ \E k \in At(r, "respond") :
              /\ At(r, "respond") = {k}
              /\ log[r][k].code = res[r]
              /\ 1 < k
              /\ \A m \in EffectsAt(r) : k < m
    /\ EffectsAt(r) # {} => PipelineStarted(r)

\* C9 witness: the acknowledgement has been sent while the pipeline is
\* still waiting for the translation of a batch.
C9_Witness ==
  \E r \in Reqs :
    /\ pc[r] = "await_translate"
    /\ res[r] \in {200, 202}
    /\ TerminalAt(r) = {}

\* the row of the job of r holds a terminal status
TerminalStatus(r) ==
  /\ req[r].jobId \in DOMAIN jobs
  /\ jobs[req[r].jobId].status \in {"completed", "error"}

\* C10: every job whose pipeline was started eventually has a terminal
\* status in the job-status store, given that every external call returns or
\* throws (FairSpec).
C10_StartedJobsTerminate ==
  \A r \in Reqs : PipelineStarted(r) ~> TerminalStatus(r)

\* C10 witness: a started pipeline has ended and its job has a terminal
\* status, after at least one batch was translated.
C10_Witness ==
  \E r \in Reqs :
    /\ PipelineStarted(r)
    /\ pc[r] = "done"
    /\ At(r, "reply") # {}
    /\ TerminalStatus(r)

\* ------------------------------------------------------------------------
\* C11..C20
\* ------------------------------------------------------------------------

\* the progress value written by the update at position k of the log of r
ProgressValue(r, k) == log[r][k].fields.progress

\* C11: within one run of processFile the progress values written to the
\* job-status store are integers in 0..100 and never decrease.
C11_ProgressMonotoneInRange ==
  \A r \in Reqs : \A k \in ProgressAt(r) :
    /\ ProgressValue(r, k) \in 0..100
    /\ \A m \in ProgressAt(r) : m < k => ProgressValue(r, m) <= ProgressValue(r, k)

\* C11 witness: a run has written two progress values, the first below the
\* second.
C11_Witness ==
  \E r \in Reqs : \E m, k \in ProgressAt(r) :
    m < k /\ ProgressValue(r, m) < ProgressValue(r, k)

\* the positions of the updates of r that write processed_file_url
UrlWritesAt(r) ==
  {k \in 1..Len(log[r]) :
     log[r][k].op = "update" /\ "processed_file_url" \in DOMAIN log[r][k].fields}

\* C12: processed_file_url is written at most once per run, only by the
\* update that sets status completed, and never by a run that sets status
\* error.
C12_UrlOnlyWithCompleted ==
  \A r \in Reqs :
    /\ Cardinality(UrlWritesAt(r)) <= 1
    /\ \A k \in UrlWritesAt(r) : IsStatusUpdate(log[r][k], {"completed"})
    /\ (\E k \in TerminalAt(r) : IsStatusUpdate(log[r][k], {"error"}))
         => UrlWritesAt(r) = {}

\* C12 witness: a run has written the URL together with status completed,
\* and the row of its job holds it.
C12_Witness ==
  \E r \in Reqs :
    /\ UrlWritesAt(r) # {}
    /\ pc[r] = "done"
    /\ jobs[req[r].jobId].status = "completed"
    /\ jobs[req[r].jobId].processed_file_url = SignedUrlOf(ProcessedName(fileName[r]))

\* the number of translateBatch calls of r up to position k of its log
CallsUpTo(r, k) == Cardinality({m \in At(r, "translate") : m <= k})

\* C13: within one run the batches are requested in the order of the
\* unique-string list and one at a time: every request is answered (reply
\* or failure) before the next one is issued, so at most one is outstanding.
C13_BatchesInOrderOneAtATime ==
  \A r \in Reqs : \A k \in At(r, "translate") :
    /\ log[r][k].batch = BatchAt(uniqueList[r], batchSize * (CallsUpTo(r, k) - 1))
    /\ IF k = Len(log[r])
       THEN pc[r] = "await_translate"
       ELSE log[r][k + 1].op = "reply"
    /\ Cardinality(At(r, "translate")) - Cardinality(At(r, "reply")) \in {0, 1}

\* C13 witness: the request for the second batch is outstanding after the
\* first was answered.
C13_Witness ==
  \E r \in Reqs :
    /\ pc[r] = "await_translate"
    /\ Cardinality(At(r, "translate")) = 2
    /\ Cardinality(At(r, "reply")) = 1
    /\ i[r] = batchSize

\* the columns of the header row of ws that hold a string whose trimmed text
\* satisfies Hit
HeaderColsWith(ws, Hit(_)) ==
  {c \in ws.ref.s.c..ws.ref.e.c :
     /\ <<c, ws.ref.s.r>> \in DOMAIN ws.cells
     /\ IsString(ws.cells[<<c, ws.ref.s.r>>].v)
     /\ Hit(trim(ws.cells[<<c, ws.ref.s.r>>].v.str))}

\* the columns whose header equals a string candidate, case-insensitively
ExactCols(ws, candidates) ==
  HeaderColsWith(ws, LAMBDA text :
    \E k \in 1..Len(candidates) :
      /\ candidates[k].kind = "string"
      /\ toLowerCase(text) = toLowerCase(candidates[k].src))

\* the columns whose header matches a pattern candidate
PatternCols(ws, candidates) ==
  HeaderColsWith(ws, LAMBDA text :
    \E k \in 1..Len(candidates) :
      candidates[k].kind = "regexp" /\ test(candidates[k].src, text))

\* C14: findColumnByHeader returns a column whose (trimmed) header equals a
\* string candidate case-insensitively whenever there is one, wherever the
\* pattern candidates are listed or match; it returns a pattern match only
\* when no string candidate matches; when nothing matches it returns null,
\* and the source column resolves to 1, the target column to 3.
C14_ExactBeforePatternThenDefault ==
  (call # Undefined /\ call.fn = "findColumnByHeader" /\ call.returned) =>
    LET ws == call.worksheet
        exact == ExactCols(ws, call.candidates)
        pattern == PatternCols(ws, call.candidates)
    IN /\ exact # {} => call.col \in exact
       /\ (exact = {} /\ pattern # {}) => call.col \in pattern
       /\ (exact = {} /\ pattern = {}) => call.col = NoCol
       /\ (ExactCols(ws, SourceCandidates) \cup PatternCols(ws, SourceCandidates) = {})
            => call.columns.sourceColIndex = 1
       /\ (ExactCols(ws, TargetCandidates) \cup PatternCols(ws, TargetCandidates) = {})
            => call.columns.targetColIndex = 3

\* C14 witness: the pattern candidate is listed first and matches column 0,
\* a string candidate matches column 2, and column 2 is returned.
C14_Witness ==
  /\ call # Undefined /\ call.fn = "findColumnByHeader" /\ call.returned
  /\ call.candidates = TargetCandidates
  /\ 0 \in PatternCols(call.worksheet, call.candidates)
  /\ ExactCols(call.worksheet, call.candidates) = {2}
  /\ call.col = 2
  /\ call.columns.sourceColIndex = 1

\* the extractor has returned
Extracted == call # Undefined /\ call.fn = "extract" /\ call.returned

\* the data rows of ws whose cell in column c satisfies Holds
DataRowsWith(ws, c, Holds(_)) ==
  {r \in (ws.ref.s.r + 1)..ws.ref.e.r :
     <<c, r>> \in DOMAIN ws.cells /\ Holds(ws.cells[<<c, r>>])}

\* a cell that holds something: a number, or a string that is not blank
NonEmptyCell(cell) == IsString(cell.v) => trim(cell.v.str) # ""

\* a cell of text type whose trimmed value is not empty
TextCell(cell) == cell.t = "s" /\ IsString(cell.v) /\ trim(cell.v.str) # ""

\* the extractor yields one row for each data row in `wanted`, in increasing
\* row order
YieldsExactly(wanted) ==
  LET rows == call.rowsToTranslate
  IN /\ Len(rows) = Cardinality(wanted)
     /\ {rows[k].row : k \in 1..Len(rows)} = wanted
     /\ \A k \in 1..(Len(rows) - 1) : rows[k].row < rows[k + 1].row

\* C15 as stated: one translatable row per non-empty cell of the source
\* column below the header, in increasing row order.  Violated by a numeric
\* cell, which the extractor skips.
C15_OneRowPerNonEmptyCell ==
  Extracted =>
    YieldsExactly(DataRowsWith(call.worksheet, call.columns.sourceColIndex,
                               NonEmptyCell))

\* C15 amended: one translatable row per cell of text type with a non-empty
\* trimmed value in the source column below the header, in increasing row
\* order, its original being the trimmed value.
C15_OneRowPerTextCell ==
  Extracted =>
    /\ YieldsExactly(DataRowsWith(call.worksheet, call.columns.sourceColIndex,
                                  TextCell))
    /\ \A k \in 1..Len(call.rowsToTranslate) :
         call.rowsToTranslate[k].original =
           trim(call.worksheet.cells[<<call.columns.sourceColIndex,
                                       call.rowsToTranslate[k].row>>].v.str)

\* C15 witness: a sheet with a numeric source cell between two text cells
\* yields the two text rows.
C15_Witness ==
  /\ Extracted
  /\ call.columns.sourceColIndex = 1
  /\ Len(call.rowsToTranslate) = 2
  /\ call.rowsToTranslate[1].row = 1
  /\ call.rowsToTranslate[2].row = 3
  /\ Cardinality(DataRowsWith(call.worksheet, 1, NonEmptyCell)) = 3

\* the first sheet of the workbook that r read has no "!ref"
NoDataRange(r) ==
  /\ workbook[r] # Undefined
  /\ workbook[r].Sheets[workbook[r].SheetNames[1]].ref = Undefined

\* C16: when the first sheet has no declared data range, processFile rejects
\* with that error before any translation request, progress update or
\* upload, and the status of the job is set to error.
C16_NoDataRangeIsError ==
  \A r \in Reqs :
    NoDataRange(r) =>
      /\ err[r] = "No data range found in the first sheet."
      /\ At(r, "translate") = {} /\ ProgressAt(r) = {} /\ At(r, "save") = {}
      /\ ProcessedName(fileName[r]) \notin DOMAIN uploads
      /\ IsStatusUpdate(Last(log[r]), {"error"})
      /\ jobs[req[r].jobId].status = "error"
      /\ pc[r] \in {"await_terminal", "done"}

\* C16 witness: the run on the workbook without a data range has ended.
C16_Witness ==
  \E r \in Reqs :
    /\ NoDataRange(r)
    /\ pc[r] = "done"
    /\ fileName[r] = "empty.xlsx"
    /\ jobs[req[r].jobId].status = "error"

\* C17: a request without the x-api-key header, or with a value other than
\* the configured secret, is answered 401 and nothing else happens: no
\* update of the job-status store and no call of processFile.
C17_BadKeyRejected ==
  \A r \in Reqs :
    (pc[r] # "idle" /\ req[r].key # API_KEY) =>
      /\ res[r] = 401
      /\ log[r] = <<RespondCall(401)>>
      /\ pc[r] = "done"
      /\ ~PipelineStarted(r)
      /\ (\A q \in Reqs \ {r} : pc[q] = "idle") => jobs = InitialJobs

\* C17 witness: a request with a wrong key and a complete body was answered
\* 401.
C17_Witness ==
  \E r \in Reqs :
    /\ req[r].key = "wrong-key"
    /\ req[r].fileUrl = UrlA
    /\ req[r].jobId = "j1"
    /\ res[r] = 401

\* the writer step has run n times on its own
WriterRan(n) == call # Undefined /\ call.fn = "write" /\ call.runs = n

\* C18: a second application of the writer step, with the same cache and
\* the same row list, leaves every sheet exactly as the first left it.
C18_WriterIdempotent ==
  WriterRan(2) => call.workbook = call.first

\* C18 witness: the first application wrote a translation into the sheet
\* and a second application has run.
C18_Witness ==
  /\ WriterRan(2)
  /\ call.first # call.before
  /\ \E k \in 1..Len(call.rowsToTranslate) : call.rowsToTranslate[k].translated # ""

\* the addresses that the writer step may change in the workbook of `call`:
\* in the first sheet, the target column of the rows of the row list
MayChange(name) ==
  IF name # call.before.SheetNames[1] THEN {}
  ELSE {<<call.rowsToTranslate[k].targetColIndex, call.rowsToTranslate[k].row>> :
          k \in 1..Len(call.rowsToTranslate)}

\* C19: the writer step changes only cells at (target column, row) for the
\* rows of the translatable-row list, in the first sheet: the header row,
\* the rows the extractor skipped, the other columns and the other sheets
\* are as before.
C19_WriterFrame ==
  (call # Undefined /\ call.fn = "write" /\ call.runs >= 1) =>
    /\ call.workbook.SheetNames = call.before.SheetNames
    /\ DOMAIN call.workbook.Sheets = DOMAIN call.before.Sheets
    /\ \A name \in DOMAIN call.before.Sheets :
         LET old == call.before.Sheets[name]
             new == call.workbook.Sheets[name]
         IN /\ new.ref = old.ref
            /\ \A a \in (DOMAIN old.cells \cup DOMAIN new.cells) \ MayChange(name) :
                 /\ a \in DOMAIN old.cells
                 /\ a \in DOMAIN new.cells
                 /\ new.cells[a] = old.cells[a]
            /\ \A a \in MayChange(name) : a[2] > old.ref.s.r /\ a \in DOMAIN new.cells

\* C19 witness: the writer wrote a translation in one row and left the old
\* target cell of a skipped row in place.
C19_Witness ==
  /\ WriterRan(1)
  /\ <<3, 1>> \in MayChange("Sheet1")
  /\ call.workbook.Sheets["Sheet1"].cells[<<3, 1>>] = StrCell(Tr("Hello"))
  /\ <<3, 2>> \notin MayChange("Sheet1")
  /\ <<3, 2>> \in DOMAIN call.workbook.Sheets["Sheet1"].cells
  /\ call.workbook.Sheets["Sheet1"].cells[<<3, 2>>] = StrCell("old")
  /\ call.workbook.Sheets["Copy"] = call.before.Sheets["Copy"]

\* the reply at position k of the log of r is an array whose length differs
\* from the size of the batch it answers
CountMismatch(r, k) ==
  log[r][k].ok /\ Len(log[r][k].entries) # Len(BatchOfReply(r, k))

\* C20: a response that parses as an array whose length differs from the
\* batch size does not fail the batch: its entries are stored in the cache,
\* the progress update follows, and every row whose original has no cache
\* entry is written as the empty string.  Violated by such an array with an
\* entry that has no key: storing it throws (C21), no progress is reported
\* and the job ends in error.
C20_CountMismatchIsNotFailure ==
  \A r \in Reqs : \A k \in At(r, "reply") :
    CountMismatch(r, k) =>
      /\ k < Len(log[r])
      /\ IsProgressUpdate(log[r][k + 1])
      /\ \A m \in 1..Len(log[r][k].entries) :
           /\ "key" \in DOMAIN log[r][k].entries[m]
           /\ trim(log[r][k].entries[m].key) \in DOMAIN translationCache[r]
      /\ WritingBegun(r) =>
           \A n \in 1..Len(rowsToTranslate[r]) :
             rowsToTranslate[r][n].original \notin DOMAIN translationCache[r]
               => TargetCell(r, rowsToTranslate[r][n]) = StrCell("")

\* ------------------------------------------------------------------------
\* C21..C24
\* ------------------------------------------------------------------------

\* C21: no response of the translation service makes the job end in error:
\* after a response that parsed as an array, whatever its entries, the
\* progress update follows, and processFile never rejects right after a
\* response.  Violated by an array with an entry that has no key:
\* translationObj.key.trim() throws outside the try block.
C21_NoResponseEndsInError ==
  \A r \in Reqs :
    /\ \A k \in At(r, "reply") :
         log[r][k].ok => (k < Len(log[r]) /\ IsProgressUpdate(log[r][k + 1]))
    /\ \A k \in At(r, "reply") :
         k < Len(log[r]) => ~IsStatusUpdate(log[r][k + 1], {"error"})

\* C22: for every header row, the source column index and the target column
\* index returned by resolveColumnsForSingleSheet are different.  Violated
\* when exactly one of the two falls back to its default and the other is
\* found by its header in that default's column (a target header in column
\* B and no source header, or a source header in column D and no target
\* header): the two lookups are independent of each other.
C22_SourceAndTargetDiffer ==
  (call # Undefined /\ call.fn = "findColumnByHeader" /\ call.returned)
    => call.columns.sourceColIndex # call.columns.targetColIndex

\* the entries of the reply at position k that were stored: those before the
\* first entry without a key
StoredEntries(r, k) ==
  LET keyless == {m \in 1..Len(log[r][k].entries) :
                    "key" \notin DOMAIN log[r][k].entries[m]}
  IN IF keyless = {} THEN 1..Len(log[r][k].entries)
     ELSE 1..((CHOOSE m \in keyless : \A j \in keyless : m <= j) - 1)

\* the entries of the reply at position k stored under the key s
StoredFor(r, k, s) ==
  {m \in StoredEntries(r, k) : trim(log[r][k].entries[m].key) = s}

\* the reply at position k set the cache entry of s
Affects(r, k, s) ==
  IF log[r][k].ok THEN StoredFor(r, k, s) # {}
  ELSE \E m \in 1..Len(BatchOfReply(r, k)) : BatchOfReply(r, k)[m] = s

\* the replies so far that set the cache entry of s
AffectingAt(r, s) == {k \in At(r, "reply") : Affects(r, k, s)}

\* the entry of s that the reply at position k left in the cache
OutcomeFor(r, k, s) ==
  IF log[r][k].ok
  THEN LET stored == StoredFor(r, k, s)
       IN log[r][k].entries[CHOOSE m \in stored : \A j \in stored : j <= m].value
  ELSE ""

\* the last reply that set the cache entry of s
LastAffecting(r, s) ==
  LET affecting == AffectingAt(r, s)
  IN CHOOSE k \in affecting : \A m \in affecting : m <= k

\* C23 as stated: the cache entry of a unique string is set or replaced only
\* by the reply to the batch that contains the string.  Violated by a reply
\* to a later batch that returns an entry whose trimmed key is a string of an
\* earlier batch.
C23_OnlyOwnBatchSetsEntry ==
  \A r \in Reqs : \A a \in 1..Len(uniqueList[r]) :
    \A k \in AffectingAt(r, uniqueList[r][a]) :
      \E m \in 1..Len(BatchOfReply(r, k)) : BatchOfReply(r, k)[m] = uniqueList[r][a]

\* C23 amended: the cache entry of a string is the outcome of the last reply
\* that either answered the batch containing it with a failure (entry "") or
\* returned an entry whose trimmed key is that string (the value of the last
\* such entry), whichever batch that reply answered; a reply to a different
\* batch sets or replaces the entry only through an entry with that key, and
\* what is written in the target cell of a row is the entry of its original
\* (empty if it has none).
C23_EntrySetOnlyUnderItsKey ==
  \A r \in Reqs :
    /\ \A s \in DOMAIN translationCache[r] :
         /\ AffectingAt(r, s) # {}
         /\ translationCache[r][s] = OutcomeFor(r, LastAffecting(r, s), s)
    /\ WritingBegun(r) =>
         \A k \in 1..Len(rowsToTranslate[r]) :
           TargetCell(r, rowsToTranslate[r][k]) =
             StrCell(CacheGet(translationCache[r], rowsToTranslate[r][k].original))

\* C23 witness: writing is done and a row holds the value that the reply to
\* the second batch returned under the key of a string of the first batch.
C23_Witness ==
  \E r \in Reqs :
    /\ WritingBegun(r)
    /\ \E k \in 1..Len(rowsToTranslate[r]) :
         LET item == rowsToTranslate[r][k]
         IN /\ item.original \in DOMAIN translationCache[r]
            /\ AffectingAt(r, item.original) # {}
            /\ \A m \in 1..Len(BatchOfReply(r, LastAffecting(r, item.original))) :
                 BatchOfReply(r, LastAffecting(r, item.original))[m] # item.original
            /\ TargetCell(r, item) = StrCell("nb:other")

\* the positions in the log of r of the updates that set status completed
CompletedAt(r) == {k \in 1..Len(log[r]) : IsStatusUpdate(log[r][k], {"completed"})}

\* C24: whenever the status of a job in the job-status store is completed,
\* a run for that job has set it, and in that run the upload of the workbook
\* under the name processed-<input file name> was issued and had returned
\* (the signing call for that object was made) before the completed update;
\* the object is in storage, and the result URL stored for the job is the
\* signed URL of that object.
C24_UploadedBeforeCompleted ==
  \A j \in DOMAIN jobs :
    jobs[j].status = "completed" =>
      \E r \in Reqs :
        /\ PipelineStarted(r)
        /\ req[r].jobId = j
        /\ \E k \in CompletedAt(r) :
           \E s \in At(r, "save") : \E g \in At(r, "sign") :
             /\ s < g /\ g < k
             /\ log[r][s].name = "processed-" \o fileName[r]
             /\ log[r][g].name = "processed-" \o fileName[r]
             /\ log[r][k].fields.processed_file_url =
                  SignedUrlOf("processed-" \o fileName[r])
        /\ ("processed-" \o fileName[r]) \in DOMAIN uploads
        /\ jobs[j].processed_file_url = SignedUrlOf("processed-" \o fileName[r])

\* C24 witness: a run has ended with its job completed and the processed
\* workbook in storage under processed-<input file name>.
C24_Witness ==
  \E r \in Reqs :
    /\ pc[r] = "done"
    /\ PipelineStarted(r)
    /\ req[r].jobId \in DOMAIN jobs
    /\ jobs[req[r].jobId].status = "completed"
    /\ ("processed-" \o fileName[r]) \in DOMAIN uploads
    /\ uploads["processed-" \o fileName[r]] = XLSXwrite(workbook[r])

====
